---- MODULE Spec2Model ----
(***************************************************************************)
(* Model of scripts/imessage-reader.c: a single-shot command line tool    *)
(* that parses [--minutes N], resolves ~/Library/Messages/chat.db, runs   *)
(* one fixed SQL query through sqlite3 and streams the rows to standard   *)
(* output as a JSON array.                                                 *)
(*                                                                         *)
(* C strings are sequences of byte values 1..255; standard output is the  *)
(* sequence of bytes written so far; standard error is the sequence of    *)
(* fprintf calls (format string and arguments).                           *)
(***************************************************************************)
EXTENDS Integers, Sequences, FiniteSets, TLC

VARIABLES argv, i, minutes, home, db_path, db, stmt, rc, row_count,
          store, clock, tzone, result, stdout, stderr, pc, exit_code, calls, json_s

vars == <<argv, i, minutes, home, db_path, db, stmt, rc, row_count,
          store, clock, tzone, result, stdout, stderr, pc, exit_code, calls, json_s>>

(***************************************************************************)
(* Bounds of the model                                                     *)
(***************************************************************************)
\* longest argument list after argv[0]
MaxArgs == 2
\* most rows in an enumerated small store
MaxRows == 2
\* longest input string of the print_json_string specification
MaxStrLen == 3
\* the large stores hold between LIMIT - 1 and LIMIT + BigExtra groups
BigExtra == 1

(***************************************************************************)
(* Program constants                                                       *)
(***************************************************************************)
DEFAULT_MINUTES == 20
MAX_PATH == 1024
SQLITE_OK == 0
SQLITE_ERROR == 1
SQLITE_BUSY == 5
SQLITE_CANTOPEN == 14
SQLITE_ROW == 100
SQLITE_DONE == 101
\* LIMIT 50
LIMIT == 50
\* seconds between the Unix epoch and the store's epoch (2001-01-01)
EPOCH_OFFSET == 978307200
\* the store's timestamps are nanoseconds
NS_PER_SEC == 1000000000

\* a NULL char pointer: distinct from every C string (bytes are 1..255)
NULL == <<-1>>

\* the value of exit_code while the process is running
RUNNING == -1

(***************************************************************************)
(* String literals of the source, as bytes                                 *)
(***************************************************************************)
\* "--minutes"
STR_MINUTES == <<45, 45, 109, 105, 110, 117, 116, 101, 115>>
\* "--bogus" (an argument the program does not know)
STR_BOGUS == <<45, 45, 98, 111, 103, 117, 115>>
\* "jarvis:" the LIKE pattern without its trailing %
STR_JARVIS == <<106, 97, 114, 118, 105, 115, 58>>
\* "{\"guid\":"
STR_GUID_KEY == <<123, 34, 103, 117, 105, 100, 34, 58>>
\* ",\"text\":"
STR_TEXT_KEY == <<44, 34, 116, 101, 120, 116, 34, 58>>
\* ",\"date_local\":"
STR_DATE_KEY == <<44, 34, 100, 97, 116, 101, 95, 108, 111, 99, 97, 108, 34, 58>>
\* "/Library/Messages/chat.db"
STR_DB_SUFFIX == <<47, 76, 105, 98, 114, 97, 114, 121, 47, 77, 101, 115, 115, 97, 103,
                   101, 115, 47, 99, 104, 97, 116, 46, 100, 98>>
\* "imessage-reader" is argv[0]; only its identity matters
PROG == <<105, 109>>

Min(a, b) == IF a < b THEN a ELSE b

(***************************************************************************)
(* print_json_string                                                       *)
(***************************************************************************)
\* lower-case hexadecimal digit of d in 0..15, as printf %x prints it
HexDigit(d) == IF d < 10 THEN 48 + d ELSE 87 + d

\* printf("\\u%04x", c) for an unsigned char c
UEscape(c) == <<92, 117, HexDigit((c \div 4096) % 16), HexDigit((c \div 256) % 16),
                HexDigit((c \div 16) % 16), HexDigit(c % 16)>>

\* the switch without its case for the backslash
EscapeByteNoBackslash(c) ==
    CASE c = 34 -> <<92, 34>>
      [] c = 10 -> <<92, 110>>
      [] c = 13 -> <<92, 114>>
      [] c = 9  -> <<92, 116>>
      [] c = 8  -> <<92, 98>>
      [] c = 12 -> <<92, 102>>
      [] OTHER  -> IF c < 32 THEN UEscape(c) ELSE <<c>>

\* the switch of print_json_string applied to one byte c = (unsigned char)*p
EscapeByte(c) ==
    CASE c = 34 -> <<92, 34>>
      [] c = 92 -> <<92, 92>>
      [] c = 10 -> <<92, 110>>
      [] c = 13 -> <<92, 114>>
      [] c = 9  -> <<92, 116>>
      [] c = 8  -> <<92, 98>>
      [] c = 12 -> <<92, 102>>
      [] OTHER  -> IF c < 32 THEN UEscape(c) ELSE <<c>>

RECURSIVE EscapeBytes(_)
\* the for loop of print_json_string over the bytes of s
EscapeBytes(s) ==
    IF s = <<>> THEN <<>> ELSE EscapeByte(Head(s)) \o EscapeBytes(Tail(s))

\* the bytes print_json_string(s) writes to standard output
PrintJsonString(s) ==
    IF s = NULL THEN <<34, 34>> ELSE <<34>> \o EscapeBytes(s) \o <<34>>

(***************************************************************************)
(* atoi                                                                    *)
(***************************************************************************)
IsSpace(c) == c = 32 \/ (c >= 9 /\ c <= 13)
IsDigit(c) == c >= 48 /\ c <= 57

RECURSIVE SkipSpace(_)
SkipSpace(s) == IF s # <<>> /\ IsSpace(Head(s)) THEN SkipSpace(Tail(s)) ELSE s

RECURSIVE DigitsValue(_, _)
\* the value of the leading decimal digits of s, accumulated onto acc
DigitsValue(s, acc) ==
    IF s # <<>> /\ IsDigit(Head(s))
    THEN DigitsValue(Tail(s), 10 * acc + (Head(s) - 48))
    ELSE acc

\* atoi(s): optional white space, optional sign, leading digits; 0 when
\* there are none.  The arguments of the model stay far below INT_MAX.
Atoi(s) ==
    LET t == SkipSpace(s) IN
    IF t # <<>> /\ Head(t) = 45 THEN 0 - DigitsValue(Tail(t), 0)
    ELSE IF t # <<>> /\ Head(t) = 43 THEN DigitsValue(Tail(t), 0)
    ELSE DigitsValue(t, 0)

(***************************************************************************)
(* SQL_QUERY, as SQLite evaluates it over the rows of the message table.  *)
(* A row of the table is [guid, text, date]: guid and text are strings or *)
(* NULL, date is the raw integer timestamp.                                *)
(***************************************************************************)
\* integer division of SQLite (C): truncates toward zero
TruncDiv(a, b) == IF a >= 0 THEN a \div b ELSE 0 - ((0 - a) \div b)

\* LIKE folds the case of ASCII letters
Lower(c) == IF c >= 65 /\ c <= 90 THEN c + 32 ELSE c

\* m.text LIKE 'jarvis:%'
LikeJarvis(text) ==
    /\ text # NULL
    /\ Len(text) >= Len(STR_JARVIS)
    /\ \A k \in 1..Len(STR_JARVIS) : Lower(text[k]) = Lower(STR_JARVIS[k])

\* (strftime('%s','now') - 978307200 - (? * 60)) * 1000000000
Threshold(mins, now) == (now - EPOCH_OFFSET - (mins * 60)) * NS_PER_SEC

\* the WHERE clause
Qualifies(row, mins, now) ==
    LikeJarvis(row.text) /\ row.date > Threshold(mins, now)

\* n in 0..99 as two decimal digits
TwoDigits(n) == <<48 + (n \div 10), 48 + (n % 10)>>

\* n in 0..9999 as four decimal digits
FourDigits(n) == TwoDigits(n \div 100) \o TwoDigits(n % 100)

\* datetime(t, 'unixepoch') for t seconds since 1970: "YYYY-MM-DD HH:MM:SS"
\* (proleptic Gregorian calendar, days counted from 0000-03-01)
FormatDateTime(t) ==
    LET days == t \div 86400
        secs == t % 86400
        z    == days + 719468
        era  == z \div 146097
        doe  == z % 146097
        yoe  == (doe - (doe \div 1460) + (doe \div 36524) - (doe \div 146096)) \div 365
        doy  == doe - (365 * yoe + (yoe \div 4) - (yoe \div 100))
        mp   == (5 * doy + 2) \div 153
        d    == doy - ((153 * mp + 2) \div 5) + 1
        m    == IF mp < 10 THEN mp + 3 ELSE mp - 9
        y    == yoe + era * 400 + (IF m <= 2 THEN 1 ELSE 0)
    IN  FourDigits(y) \o <<45>> \o TwoDigits(m) \o <<45>> \o TwoDigits(d) \o <<32>>
        \o TwoDigits(secs \div 3600) \o <<58>> \o TwoDigits((secs % 3600) \div 60)
        \o <<58>> \o TwoDigits(secs % 60)

\* datetime(m.date / 1000000000 + 978307200, 'unixepoch', 'localtime'),
\* the local time zone being tz seconds east of UTC
DateLocal(date, tz) == FormatDateTime(TruncDiv(date, NS_PER_SEC) + EPOCH_OFFSET + tz)

\* GROUP BY m.text alone
GroupKeyTextOnly(row, tz) == <<row.text>>

\* GROUP BY m.text, date_local: the key of a row
GroupKey(row, tz) == <<row.text, DateLocal(row.date, tz)>>

\* the positions of the rows of st that pass the WHERE clause
Passing(st, mins, now) == {k \in 1..Len(st) : Qualifies(st[k], mins, now)}

\* the keys of the table: keys[k] is the group key of row k
KeysOf(st, tz) == [k \in 1..Len(st) |-> GroupKey(st[k], tz)]

RECURSIVE RepChoices(_, _, _)
\* The bare columns m.guid and m.date of an aggregate query are taken from
\* one arbitrarily chosen row of each group: every way of choosing one
\* representative position per group key in ks, among the positions pass
RepChoices(ks, keys, pass) ==
    IF ks = {} THEN {{}}
    ELSE LET key == CHOOSE x \in ks : TRUE
             members == {k \in pass : keys[k] = key}
         IN  {c \cup {r} : c \in RepChoices(ks \ {key}, keys, pass), r \in members}

RECURSIVE SortedOrders(_, _)
\* ORDER BY m.date DESC over the representatives reps: every sequence of
\* reps in non-increasing date order (rows of equal date in either order)
SortedOrders(reps, st) ==
    IF reps = {} THEN {<<>>}
    ELSE LET newest == {r \in reps : \A q \in reps : st[r].date >= st[q].date}
         IN  UNION {{<<r>> \o t : t \in SortedOrders(reps \ {r}, st)} : r \in newest}

\* the query without its LIMIT clause
ApplyNoLimit(order) == order

\* LIMIT 50
ApplyLimit(order) == SubSeq(order, 1, Min(Len(order), LIMIT))

\* the result row of representative position r: the three selected columns
\* and the raw timestamp the sorter ordered it by
ResultRow(st, r, tz) ==
    [guid |-> st[r].guid, text |-> st[r].text,
     date_local |-> DateLocal(st[r].date, tz), date |-> st[r].date]

\* every result the query may produce over table st
QueryResults(st, mins, now, tz) ==
    LET pass == Passing(st, mins, now)
        keys == KeysOf(st, tz)
        ks   == {keys[k] : k \in pass}
    IN  {[n \in 1..Len(ApplyLimit(o)) |-> ResultRow(st, o[n], tz)] :
            o \in UNION {SortedOrders(c, st) : c \in RepChoices(ks, keys, pass)}}

(***************************************************************************)
(* The inputs of a run: argument lists, home directories, message stores, *)
(* the clock and the time zone                                             *)
(***************************************************************************)
\* arguments: "--minutes", "--bogus", "5", "0", "-3", "abc", "5x", ""
ArgTokens == {STR_MINUTES, STR_BOGUS, <<53>>, <<48>>, <<45, 51>>, <<97, 98, 99>>,
              <<53, 120>>, <<>>}

RECURSIVE SeqsUpTo(_, _)
\* the sequences over S of length at most n
SeqsUpTo(S, n) ==
    IF n = 0 THEN {<<>>}
    ELSE LET shorter == SeqsUpTo(S, n - 1)
         IN  shorter \cup {Append(t, x) : t \in shorter, x \in S}

\* argv: the program name followed by at most MaxArgs arguments
ArgVectors == {<<PROG>> \o a : a \in SeqsUpTo(ArgTokens, MaxArgs)}

\* getenv("HOME"): unset or "/Users/a"
HomeEnvs == {NULL, <<47, 85, 115, 101, 114, 115, 47, 97>>}
\* getpwuid(getuid()): no entry, or an entry whose pw_dir is "/Users/a"
PwDirs == {NULL, <<47, 85, 115, 101, 114, 115, 47, 97>>}

\* "jarvis:" followed by the bytes of tail
Jarvis(tail) == STR_JARVIS \o tail

\* rows a small store is made of: a plain match; its self-send twin (same
\* text and second, other raw timestamp, no guid); another text at the
\* same raw timestamp; an upper-case match whose text needs escaping; a
\* text without the marker; an old match; a row without text; a later one
RowKinds ==
    { [guid |-> <<103>>, text |-> Jarvis(<<97>>), date |-> 1500000000],
      [guid |-> NULL,    text |-> Jarvis(<<97>>), date |-> 1500000001],
      [guid |-> <<104>>, text |-> Jarvis(<<98>>), date |-> 1500000000],
      [guid |-> <<107, 34>>, text |-> <<74, 65, 82, 86, 73, 83, 58, 34, 92, 10, 1>>,
       date |-> 1700000000],
      [guid |-> <<120>>, text |-> <<104, 105>>, date |-> 1500000000],
      [guid |-> <<111>>, text |-> Jarvis(<<97>>), date |-> 500000000],
      [guid |-> <<110>>, text |-> NULL, date |-> 1600000000],
      [guid |-> <<122>>, text |-> Jarvis(<<99>>), date |-> 2000000000] }

SmallTables == SeqsUpTo(RowKinds, MaxRows)

\* row k of a large table: its own text and raw timestamp, all in the window
BigRow(k) == [guid |-> <<103, 64 + k>>, text |-> Jarvis(<<64 + k>>),
              date |-> 1100000000 + 10000000 * k]

\* a large table of n distinct messages, oldest first, and then: nothing
\* more ("plain"); the self-send twin of the oldest message ("dup"); or one
\* more message at the raw timestamp of the oldest ("tie")
BigTable(n, variant) ==
    [k \in 1..n |-> BigRow(k)] \o
    CASE variant = "plain" -> <<>>
      [] variant = "dup"   -> <<[guid |-> NULL, text |-> BigRow(1).text,
                                 date |-> BigRow(1).date + 1]>>
      [] variant = "tie"   -> <<[guid |-> <<116>>, text |-> Jarvis(<<48>>),
                                 date |-> BigRow(1).date]>>

BigTables == {BigTable(n, v) : n \in (LIMIT - 1)..(LIMIT + BigExtra),
                               v \in {"plain", "dup", "tie"}}

\* the message store found at db_path: no file, or a file with a table
Stores == {[exists |-> FALSE, rows |-> <<>>]} \cup
          {[exists |-> TRUE, rows |-> t] : t \in SmallTables \cup BigTables}

\* The moment the query runs, for lookback mins: the clock
\* strftime('%s','now') reads and the local time zone in seconds east of
\* UTC.  The window starts at the store's second 0 in UTC, or at its
\* second 1 in UTC-8.
Moments(mins) ==
    { [clk |-> EPOCH_OFFSET + (mins * 60), tzo |-> 0],
      [clk |-> EPOCH_OFFSET + (mins * 60) + 1, tzo |-> -28800] }

\* bytes of the strings handed to print_json_string on its own: the seven
\* bytes with a short escape, two other control bytes, and plain bytes
\* (space, 'a', 'u', '/', DEL, 0xff)
JsonBytes == {34, 92, 10, 13, 9, 8, 12, 1, 31, 32, 97, 117, 47, 127, 255}

\* the arguments of print_json_string: NULL or a string of these bytes
JsonInputs == {NULL} \cup SeqsUpTo(JsonBytes, MaxStrLen)

(***************************************************************************)
(* The process                                                             *)
(***************************************************************************)
\* one fprintf(stderr, fmt, args...) call
Line(fmt, args) == [fmt |-> fmt, args |-> args]

\* sqlite3_errmsg(db): the text is the engine's
ERRMSG == <<63>>

\* one call of the sqlite3 API and the code it returned
Call(fn, code) == [fn |-> fn, rc |-> code]

\* argc, and argv[k] for the C index k
argc == Len(argv)
Arg(k) == argv[k + 1]

\* snprintf(db_path, sizeof(db_path), "%s/Library/Messages/chat.db", home)
DbPath(h) == SubSeq(h \o STR_DB_SUFFIX, 1, Min(Len(h) + Len(STR_DB_SUFFIX), MAX_PATH - 1))

\* the lines usage(prog) prints before it exits with status 1
UsageLines(prog) == <<Line("Usage: %s [--minutes N]\n", <<prog>>)>>

\* the state after construction: nothing parsed, nothing opened or written
InitCommon ==
    /\ i = 1
    /\ minutes = DEFAULT_MINUTES
    /\ home = NULL
    /\ db_path = <<>>
    /\ db = "NULL"
    /\ stmt = "NULL"
    /\ rc = SQLITE_OK
    /\ row_count = 0
    /\ store = [exists |-> FALSE, rows |-> <<>>]
    /\ clock = 0
    /\ tzone = 0
    /\ result = <<>>
    /\ stdout = <<>>
    /\ stderr = <<>>
    /\ exit_code = RUNNING
    /\ calls = <<>>

Init ==
    /\ argv \in ArgVectors
    /\ pc = "parse"
    /\ json_s = NULL
    /\ InitCommon

\* for-loop iteration on "--minutes" with no value after it
ArgMissingValue ==
    /\ pc = "parse" /\ i < argc
    /\ Arg(i) = STR_MINUTES
    /\ i + 1 >= argc
    /\ stderr' = stderr \o <<Line("Error: --minutes requires a value\n", <<>>)>>
                        \o UsageLines(Arg(0))
    /\ pc' = "exited"
    /\ exit_code' = 1
    /\ UNCHANGED <<argv, i, minutes, home, db_path, db, stmt, rc, row_count,
                   store, clock, tzone, result, stdout, calls, json_s>>

\* the message printed when atoi's value is not positive
NonPositiveLines ==
    <<Line("Error: minutes must be a positive integer\n", <<>>)>>

\* for-loop iteration on "--minutes" followed by a value
ArgMinutes ==
    /\ pc = "parse" /\ i < argc
    /\ Arg(i) = STR_MINUTES
    /\ i + 1 < argc
    /\ minutes' = Atoi(Arg(i + 1))
    /\ IF minutes' <= 0
       THEN /\ stderr' = stderr \o NonPositiveLines
            /\ i' = i + 1
            /\ pc' = "exited"
            /\ exit_code' = 1
       ELSE /\ i' = i + 2
            /\ UNCHANGED <<stderr, pc, exit_code>>
    /\ UNCHANGED <<argv, home, db_path, db, stmt, rc, row_count,
                   store, clock, tzone, result, stdout, calls, json_s>>

\* for-loop iteration on any other argument
ArgUnknown ==
    /\ pc = "parse" /\ i < argc
    /\ Arg(i) # STR_MINUTES
    /\ stderr' = stderr \o <<Line("Error: unknown argument '%s'\n", <<Arg(i)>>)>>
                        \o UsageLines(Arg(0))
    /\ pc' = "exited"
    /\ exit_code' = 1
    /\ UNCHANGED <<argv, i, minutes, home, db_path, db, stmt, rc, row_count,
                   store, clock, tzone, result, stdout, calls, json_s>>

\* the for loop ends: all arguments consumed
ArgsDone ==
    /\ pc = "parse" /\ i >= argc
    /\ pc' = "home"
    /\ UNCHANGED <<argv, i, minutes, home, db_path, db, stmt, rc, row_count, store,
                   clock, tzone, result, stdout, stderr, exit_code, calls, json_s>>

\* getenv("HOME"), getpwuid as the fallback, then snprintf of db_path
ResolveHome ==
    /\ pc = "home"
    /\ \E env \in HomeEnvs, pw \in PwDirs :
         LET h == IF env # NULL THEN env ELSE pw IN
         IF h = NULL
         THEN /\ stderr' = stderr \o <<Line("Error: cannot determine home directory\n", <<>>)>>
              /\ pc' = "exited"
              /\ exit_code' = 1
              /\ UNCHANGED <<home, db_path>>
         ELSE /\ home' = h
              /\ db_path' = DbPath(h)
              /\ pc' = "open"
              /\ UNCHANGED <<stderr, exit_code>>
    /\ UNCHANGED <<argv, i, minutes, db, stmt, rc, row_count, store,
                   clock, tzone, result, stdout, calls, json_s>>

\* what sqlite3_open_v2(db_path, &db, SQLITE_OPEN_READONLY, NULL) may return
OpenCodes(st) == IF st.exists THEN {SQLITE_OK, SQLITE_CANTOPEN} ELSE {SQLITE_CANTOPEN}

\* the open failure branch also printing an empty array
OpenFailedEmptyArray(code) ==
    /\ stderr' = stderr \o <<Line("Error: cannot open %s: %s\n", <<db_path, ERRMSG>>)>>
    /\ calls' = calls \o <<Call("sqlite3_open_v2", code), Call("sqlite3_close", SQLITE_OK)>>
    /\ db' = "closed"
    /\ pc' = "exited"
    /\ exit_code' = 1
    /\ stdout' = stdout \o <<91, 93, 10>>

\* the failure branch of the open: message, sqlite3_close(db), return 1.
\* sqlite3_open_v2 hands back a connection handle also when it fails.
OpenFailed(code) ==
    /\ stderr' = stderr \o <<Line("Error: cannot open %s: %s\n", <<db_path, ERRMSG>>)>>
    /\ calls' = calls \o <<Call("sqlite3_open_v2", code), Call("sqlite3_close", SQLITE_OK)>>
    /\ db' = "closed"
    /\ pc' = "exited"
    /\ exit_code' = 1
    /\ UNCHANGED stdout

\* sqlite3_open_v2 on the store found at db_path
OpenDb ==
    /\ pc = "open"
    /\ \E st \in Stores : \E code \in OpenCodes(st) :
         /\ store' = st
         /\ rc' = code
         /\ IF code # SQLITE_OK
            THEN OpenFailed(code)
            ELSE /\ db' = "open"
                 /\ calls' = Append(calls, Call("sqlite3_open_v2", code))
                 /\ pc' = "prepare"
                 /\ UNCHANGED <<stdout, stderr, exit_code>>
    /\ UNCHANGED <<argv, i, minutes, home, db_path, stmt, row_count,
                   clock, tzone, result, json_s>>

\* the prepare failure branch returning without sqlite3_close(db)
PrepareFailedNoClose(code) ==
    /\ stderr' = stderr \o <<Line("Error: SQL prepare failed: %s\n", <<ERRMSG>>)>>
    /\ calls' = Append(calls, Call("sqlite3_prepare_v2", code))
    /\ pc' = "exited"
    /\ exit_code' = 1
    /\ UNCHANGED <<db, stmt>>

\* the failure branch of the prepare: message, sqlite3_close(db), return 1
PrepareFailed(code) ==
    /\ stderr' = stderr \o <<Line("Error: SQL prepare failed: %s\n", <<ERRMSG>>)>>
    /\ calls' = calls \o <<Call("sqlite3_prepare_v2", code), Call("sqlite3_close", SQLITE_OK)>>
    /\ db' = "closed"
    /\ pc' = "exited"
    /\ exit_code' = 1
    /\ UNCHANGED stmt

\* sqlite3_prepare_v2(db, SQL_QUERY, -1, &stmt, NULL)
Prepare ==
    /\ pc = "prepare"
    /\ \E code \in {SQLITE_OK, SQLITE_ERROR} :
         /\ rc' = code
         /\ IF code # SQLITE_OK
            THEN PrepareFailed(code)
            ELSE /\ stmt' = "prepared"
                 /\ calls' = Append(calls, Call("sqlite3_prepare_v2", code))
                 /\ pc' = "bind"
                 /\ UNCHANGED <<db, stderr, exit_code>>
    /\ UNCHANGED <<argv, i, minutes, home, db_path, row_count, store,
                   clock, tzone, result, stdout, json_s>>

\* sqlite3_bind_int(stmt, 1, minutes)
Bind ==
    /\ pc = "bind"
    /\ \E code \in {SQLITE_OK, SQLITE_ERROR} :
         /\ rc' = code
         /\ IF code # SQLITE_OK
            THEN /\ stderr' = stderr \o <<Line("Error: bind failed: %s\n", <<ERRMSG>>)>>
                 /\ calls' = calls \o <<Call("sqlite3_bind_int", code),
                                        Call("sqlite3_finalize", SQLITE_OK),
                                        Call("sqlite3_close", SQLITE_OK)>>
                 /\ stmt' = "finalized"
                 /\ db' = "closed"
                 /\ pc' = "exited"
                 /\ exit_code' = 1
            ELSE /\ calls' = Append(calls, Call("sqlite3_bind_int", code))
                 /\ pc' = "begin"
                 /\ UNCHANGED <<db, stmt, stderr, exit_code>>
    /\ UNCHANGED <<argv, i, minutes, home, db_path, row_count, store,
                   clock, tzone, result, stdout, json_s>>

\* printf("["); int row_count = 0;
BeginArray ==
    /\ pc = "begin"
    /\ stdout' = stdout \o <<91>>
    /\ row_count' = 0
    /\ pc' = "step"
    /\ UNCHANGED <<argv, i, minutes, home, db_path, db, stmt, rc, store,
                   clock, tzone, result, stderr, exit_code, calls, json_s>>

\* the comma printed before every row, the first included
SeparatorAlways(count) == <<44>>

\* if (row_count > 0) printf(",");
Separator(count) == IF count > 0 THEN <<44>> ELSE <<>>

\* the body of the while loop: the bytes written for one row
Object(row) ==
    STR_GUID_KEY \o PrintJsonString(row.guid)
    \o STR_TEXT_KEY \o PrintJsonString(row.text)
    \o STR_DATE_KEY \o PrintJsonString(row.date_local)
    \o <<125>>

\* The first sqlite3_step runs the query over the store, at the clock and
\* in the time zone of that moment; later steps walk the same result.
Executions ==
    IF stmt = "prepared"
    THEN UNION {{[clk |-> m.clk, tzo |-> m.tzo, res |-> r] :
                    r \in QueryResults(store.rows, minutes, m.clk, m.tzo)} :
                 m \in Moments(minutes)}
    ELSE {[clk |-> clock, tzo |-> tzone, res |-> result]}

\* sqlite3_step returns SQLITE_ROW: one pass through the loop body
StepRow ==
    /\ pc = "step"
    /\ \E e \in Executions :
         /\ row_count < Len(e.res)
         /\ result' = e.res
         /\ clock' = e.clk
         /\ tzone' = e.tzo
         /\ stdout' = stdout \o Separator(row_count) \o Object(e.res[row_count + 1])
    /\ rc' = SQLITE_ROW
    /\ stmt' = "running"
    /\ row_count' = row_count + 1
    /\ calls' = Append(calls, Call("sqlite3_step", SQLITE_ROW))
    /\ UNCHANGED <<argv, i, minutes, home, db_path, db, store,
                   stderr, pc, exit_code, json_s>>

\* sqlite3_step returns SQLITE_DONE after the last row: the loop ends
StepDone ==
    /\ pc = "step"
    /\ \E e \in Executions :
         /\ row_count = Len(e.res)
         /\ result' = e.res
         /\ clock' = e.clk
         /\ tzone' = e.tzo
    /\ rc' = SQLITE_DONE
    /\ stmt' = "running"
    /\ calls' = Append(calls, Call("sqlite3_step", SQLITE_DONE))
    /\ pc' = "finish"
    /\ UNCHANGED <<argv, i, minutes, home, db_path, db, row_count, store,
                   stdout, stderr, exit_code, json_s>>

\* sqlite3_step reports an error, on the first or a later fetch: the loop ends
StepError ==
    /\ pc = "step"
    /\ rc' = SQLITE_BUSY
    /\ calls' = Append(calls, Call("sqlite3_step", SQLITE_BUSY))
    /\ pc' = "finish"
    /\ UNCHANGED <<argv, i, minutes, home, db_path, db, stmt, row_count, store,
                   clock, tzone, result, stdout, stderr, exit_code, json_s>>

\* the closing bracket printed only when the loop ended with SQLITE_DONE
ClosingOnSuccessOnly(code) == IF code = SQLITE_DONE THEN <<93, 10>> ELSE <<>>

\* the bytes written after the loop: printf("]\n")
Closing(code) == <<93, 10>>

\* main returning 0 after the loop whatever sqlite3_step reported
FinalStatusIgnoringRc(code) == 0

\* the status main returns after the loop
FinalStatus(code) == IF code # SQLITE_DONE THEN 1 ELSE 0

\* after the loop: printf("]\n"), the check of rc, finalize, close, return
Finish ==
    /\ pc = "finish"
    /\ stdout' = stdout \o Closing(rc)
    /\ stderr' = IF rc # SQLITE_DONE
                 THEN stderr \o <<Line("Error: query execution failed: %s\n", <<ERRMSG>>)>>
                 ELSE stderr
    /\ calls' = calls \o <<Call("sqlite3_finalize", SQLITE_OK),
                           Call("sqlite3_close", SQLITE_OK)>>
    /\ stmt' = "finalized"
    /\ db' = "closed"
    /\ pc' = "exited"
    /\ exit_code' = FinalStatus(rc)
    /\ UNCHANGED <<argv, i, minutes, home, db_path, rc, row_count, store,
                   clock, tzone, result, json_s>>

Next ==
    \/ ArgMissingValue
    \/ ArgMinutes
    \/ ArgUnknown
    \/ ArgsDone
    \/ ResolveHome
    \/ OpenDb
    \/ Prepare
    \/ Bind
    \/ BeginArray
    \/ StepRow
    \/ StepDone
    \/ StepError
    \/ Finish

Spec == Init /\ [][Next]_vars

(***************************************************************************)
(* print_json_string on its own: one call on an arbitrary argument        *)
(***************************************************************************)
InitJson ==
    /\ argv = <<PROG>>
    /\ pc = "json_call"
    /\ json_s \in JsonInputs
    /\ InitCommon

\* print_json_string(json_s)
PrintJsonCall ==
    /\ pc = "json_call"
    /\ stdout' = stdout \o PrintJsonString(json_s)
    /\ pc' = "json_ret"
    /\ UNCHANGED <<argv, i, minutes, home, db_path, db, stmt, rc, row_count, store,
                   clock, tzone, result, stderr, exit_code, calls, json_s>>

NextJson == PrintJsonCall

SpecJson == InitJson /\ [][NextJson]_vars

(***************************************************************************)
(* Properties                                                              *)
(***************************************************************************)
\* the arguments after argv[0]
Args == SubSeq(argv, 2, Len(argv))

\* the argument list is a sequence of pairs "--minutes" V, every V having a
\* positive atoi value
ArgsAccepted ==
    /\ Len(Args) % 2 = 0
    /\ \A k \in 1..Len(Args) :
         IF k % 2 = 1 THEN Args[k] = STR_MINUTES ELSE Atoi(Args[k]) > 0

\* some call of fn returned SQLITE_OK
Succeeded(fn) == \E k \in 1..Len(calls) : calls[k].fn = fn /\ calls[k].rc = SQLITE_OK

\* the codes sqlite3_step returned, in order
StepCodes ==
    LET steps == SelectSeq(calls, LAMBDA c : c.fn = "sqlite3_step")
    IN  [k \in 1..Len(steps) |-> steps[k].rc]

\* every sqlite3_step up to and including a final SQLITE_DONE succeeded
StepsCompleted ==
    /\ StepCodes # <<>>
    /\ StepCodes[Len(StepCodes)] = SQLITE_DONE
    /\ \A k \in 1..(Len(StepCodes) - 1) : StepCodes[k] = SQLITE_ROW

PipelineSucceeded ==
    /\ ArgsAccepted
    /\ home # NULL
    /\ Succeeded("sqlite3_open_v2")
    /\ Succeeded("sqlite3_prepare_v2")
    /\ Succeeded("sqlite3_bind_int")
    /\ StepsCompleted

\* C1: when the process has exited, its status is 0 if every stage
\* (arguments, home directory, open, prepare, bind, every step up to
\* SQLITE_DONE) succeeded, and 1 in every other run.
C1_ExitStatus ==
    pc = "exited" =>
        /\ exit_code \in {0, 1}
        /\ exit_code = 0 <=> PipelineSucceeded

\* a run that failed in sqlite3_step after rows had been written
C1_Witness ==
    /\ pc = "exited"
    /\ exit_code = 1
    /\ row_count > 0
    /\ rc = SQLITE_BUSY

\* C4: when the process has exited, no opened connection is left unclosed
\* and no prepared statement is left unfinalized.
C4_ResourcesReleased ==
    pc = "exited" =>
        /\ db # "open"
        /\ stmt \notin {"prepared", "running"}
        /\ Succeeded("sqlite3_open_v2") => calls[Len(calls)].fn = "sqlite3_close"
        /\ Succeeded("sqlite3_prepare_v2") =>
               \E k \in 1..Len(calls) : calls[k].fn = "sqlite3_finalize"

\* a run in which the open succeeded and the prepare failed
C4_Witness ==
    /\ pc = "exited"
    /\ Succeeded("sqlite3_open_v2")
    /\ rc = SQLITE_ERROR
    /\ stmt = "NULL"
    /\ db = "closed"

\* C5: standard output is empty until the arguments, the home directory,
\* the open, the prepare and the bind have all succeeded; a run that ends
\* in a usage or resolution error never calls sqlite3_open_v2.
C5_NoOutputBeforeBind ==
    /\ stdout # <<>> =>
           /\ ArgsAccepted
           /\ home # NULL
           /\ Succeeded("sqlite3_open_v2")
           /\ Succeeded("sqlite3_prepare_v2")
           /\ Succeeded("sqlite3_bind_int")
    /\ (pc = "exited" /\ ~Succeeded("sqlite3_bind_int")) => stdout = <<>>
    /\ (pc = "exited" /\ (~ArgsAccepted \/ home = NULL)) => calls = <<>>

\* a run that found no store file at db_path
C5_Witness ==
    /\ pc = "exited"
    /\ ~store.exists
    /\ rc = SQLITE_CANTOPEN
    /\ calls # <<>>
    /\ stdout = <<>>

\* one JSON object as the contract spells it: the keys "guid", "text" and
\* "date_local" in that order, each followed by a colon and a JSON string
ContractObject(row) ==
    <<123>>
    \o <<34, 103, 117, 105, 100, 34>> \o <<58>> \o PrintJsonString(row.guid)
    \o <<44>>
    \o <<34, 116, 101, 120, 116, 34>> \o <<58>> \o PrintJsonString(row.text)
    \o <<44>>
    \o <<34, 100, 97, 116, 101, 95, 108, 111, 99, 97, 108, 34>> \o <<58>>
    \o PrintJsonString(row.date_local)
    \o <<125>>

RECURSIVE JoinObjects(_)
\* the objects of rows, a comma between each two
JoinObjects(rows) ==
    IF rows = <<>> THEN <<>>
    ELSE IF Len(rows) = 1 THEN ContractObject(rows[1])
    ELSE JoinObjects(SubSeq(rows, 1, Len(rows) - 1)) \o <<44>>
         \o ContractObject(rows[Len(rows)])

\* the array of rows: "[", the objects, "]" and a newline
ContractArray(rows) == <<91>> \o JoinObjects(rows) \o <<93, 10>>

\* the rows sqlite3_step has returned so far
Fetched == SubSeq(result, 1, row_count)

\* C6: when the query returned k rows and then SQLITE_DONE, standard output
\* is exactly "[", the k objects in row order separated by k-1 commas, "]"
\* and a newline, which is "[]" and a newline for k = 0; the status is 0.
C6_ArrayOfAllRows ==
    (pc = "exited" /\ rc = SQLITE_DONE) =>
        /\ row_count = Len(result)
        /\ stdout = ContractArray(result)
        /\ row_count = 0 => stdout = <<91, 93, 10>>
        /\ exit_code = 0

\* a complete run over a result of at least two rows
C6_Witness ==
    /\ pc = "exited"
    /\ rc = SQLITE_DONE
    /\ row_count >= 2

\* C10: every run that reached the query ends with standard output being
\* the complete array of the rows fetched so far, closed by "]" and a
\* newline, also when sqlite3_step failed, in which case the status is 1.
C10_ArrayClosedOnEveryExit ==
    (pc = "exited" /\ Succeeded("sqlite3_bind_int")) =>
        /\ stdout = ContractArray(Fetched)
        /\ SubSeq(stdout, Len(stdout) - 1, Len(stdout)) = <<93, 10>>
        /\ rc # SQLITE_DONE => exit_code = 1

\* a run whose second or later fetch failed
C10_Witness ==
    /\ pc = "exited"
    /\ rc = SQLITE_BUSY
    /\ row_count >= 1
    /\ Len(stdout) > 3

(***************************************************************************)
(* Argument validation as the contract words it                            *)
(***************************************************************************)
\* s is a decimal integer: an optional sign and then digits only
IsDecimalInteger(s) ==
    LET body == IF s # <<>> /\ Head(s) \in {43, 45} THEN Tail(s) ELSE s
    IN  body # <<>> /\ \A k \in 1..Len(body) : IsDigit(body[k])

\* s is a decimal integer greater than zero
IsPositiveDecimal(s) == IsDecimalInteger(s) /\ Atoi(s) > 0

\* the arguments are exactly "--minutes" V
SingleMinutes == Len(Args) = 2 /\ Args[1] = STR_MINUTES

\* C2: with the arguments "--minutes V", a positive decimal integer V is
\* accepted and is the value bound (20 is bound without the flag); any
\* other V, non-positive or not a decimal integer, ends the run in argument
\* parsing with status 1 and nothing on standard output.
C2_MinutesValidated ==
    /\ (Args = <<>> /\ Succeeded("sqlite3_bind_int")) => minutes = DEFAULT_MINUTES
    /\ (SingleMinutes /\ IsPositiveDecimal(Args[2]) /\ pc # "parse") =>
           /\ i >= argc
           /\ minutes = Atoi(Args[2])
    /\ (SingleMinutes /\ ~IsPositiveDecimal(Args[2])) =>
           /\ pc \in {"parse", "exited"}
           /\ pc = "exited" => (exit_code = 1 /\ stdout = <<>>)

\* the arguments are pairs "--minutes" V with every V a positive decimal
\* integer
ArgsWellFormed ==
    /\ Len(Args) % 2 = 0
    /\ \A k \in 1..Len(Args) :
         IF k % 2 = 1 THEN Args[k] = STR_MINUTES ELSE IsPositiveDecimal(Args[k])

\* C3: a run whose arguments are in error (unknown argument, "--minutes"
\* without a value, or with a non-positive or malformed value) ends with
\* status 1, the usage message being the last thing printed to standard
\* error.
C3_UsageOnArgumentError ==
    (pc = "exited" /\ ~ArgsWellFormed) =>
        /\ exit_code = 1
        /\ stderr # <<>>
        /\ stderr[Len(stderr)] = Line("Usage: %s [--minutes N]\n", <<Arg(0)>>)

(***************************************************************************)
(* JSON string escaping                                                    *)
(***************************************************************************)
\* the result of decoding text that is not a JSON string body
JSON_INVALID == <<-2>>

\* the value of a hexadecimal digit, -1 for any other byte
HexValue(c) ==
    IF c >= 48 /\ c <= 57 THEN c - 48
    ELSE IF c >= 97 /\ c <= 102 THEN c - 87
    ELSE IF c >= 65 /\ c <= 70 THEN c - 55
    ELSE -1

\* the UTF-8 bytes of code point u below 0x10000
Utf8(u) ==
    IF u < 128 THEN <<u>>
    ELSE IF u < 2048 THEN <<192 + (u \div 64), 128 + (u % 64)>>
    ELSE <<224 + (u \div 4096), 128 + ((u \div 64) % 64), 128 + (u % 64)>>

RECURSIVE JsonDecode(_, _)
\* A JSON parser on the body of a string literal (RFC 8259): the bytes it
\* denotes, appended to acc, or JSON_INVALID for a raw quote, a raw control
\* byte or a bad escape
JsonDecode(s, acc) ==
    IF s = <<>> THEN acc
    ELSE IF Head(s) = 34 \/ Head(s) < 32 THEN JSON_INVALID
    ELSE IF Head(s) # 92 THEN JsonDecode(Tail(s), Append(acc, Head(s)))
    ELSE IF Len(s) < 2 THEN JSON_INVALID
    ELSE IF s[2] \in {34, 92, 47}
         THEN JsonDecode(SubSeq(s, 3, Len(s)), Append(acc, s[2]))
    ELSE IF s[2] = 98  THEN JsonDecode(SubSeq(s, 3, Len(s)), Append(acc, 8))
    ELSE IF s[2] = 102 THEN JsonDecode(SubSeq(s, 3, Len(s)), Append(acc, 12))
    ELSE IF s[2] = 110 THEN JsonDecode(SubSeq(s, 3, Len(s)), Append(acc, 10))
    ELSE IF s[2] = 114 THEN JsonDecode(SubSeq(s, 3, Len(s)), Append(acc, 13))
    ELSE IF s[2] = 116 THEN JsonDecode(SubSeq(s, 3, Len(s)), Append(acc, 9))
    ELSE IF s[2] = 117 /\ Len(s) >= 6 /\ \A k \in 3..6 : HexValue(s[k]) >= 0
         THEN JsonDecode(SubSeq(s, 7, Len(s)),
                         acc \o Utf8(4096 * HexValue(s[3]) + 256 * HexValue(s[4])
                                     + 16 * HexValue(s[5]) + HexValue(s[6])))
    ELSE JSON_INVALID

\* the number of bytes the contract gives to byte c: two for the seven
\* short escapes, six for any other control byte, one for the rest
ContractWidth(c) ==
    IF c \in {34, 92, 10, 13, 9, 8, 12} THEN 2 ELSE IF c < 32 THEN 6 ELSE 1

RECURSIVE ContractLength(_)
ContractLength(s) ==
    IF s = <<>> THEN 0 ELSE ContractWidth(Head(s)) + ContractLength(Tail(s))

\* C7: print_json_string writes a quote, the escaped bytes and a quote
\* (two quotes for NULL): the seven short escapes take two bytes, other
\* control bytes six, every other byte one; no raw control byte, quote or
\* lone backslash is written, and a JSON parser reads the original bytes
\* back.
C7_JsonStringEscaping ==
    pc = "json_ret" =>
        IF json_s = NULL THEN stdout = <<34, 34>>
        ELSE LET inner == SubSeq(stdout, 2, Len(stdout) - 1) IN
             /\ Len(stdout) >= 2
             /\ stdout[1] = 34
             /\ stdout[Len(stdout)] = 34
             /\ Len(inner) = ContractLength(json_s)
             /\ \A k \in 1..Len(inner) : inner[k] >= 32
             /\ JsonDecode(inner, <<>>) = json_s

\* the call on a quote, a backslash and the control byte 0x01
C7_Witness ==
    /\ pc = "json_ret"
    /\ json_s = <<34, 92, 1>>
    /\ Len(stdout) = 12

(***************************************************************************)
(* Deduplication, order and cap of the emitted objects                     *)
(***************************************************************************)
\* the positions of the store's rows that pass the filter of the run
PassingRows == Passing(store.rows, minutes, clock)

\* the (text, date_local) pair of the store's row k
StorePair(k) == <<store.rows[k].text, DateLocal(store.rows[k].date, tzone)>>

\* the distinct pairs among the rows that pass the filter
StorePairs == {StorePair(k) : k \in PassingRows}

\* the pair of the n-th emitted object
EmittedPair(n) == <<result[n].text, result[n].date_local>>

\* the pairs of the objects emitted so far
EmittedPairs == {EmittedPair(n) : n \in 1..row_count}

\* the process has ended after at least one sqlite3_step that ran the query
QueryRanAndExited == pc = "exited" /\ stmt = "finalized" /\ StepCodes # <<>>
                     /\ (row_count > 0 \/ rc = SQLITE_DONE)

\* C8: no two emitted objects have the same (text, date_local) pair, and
\* after a complete run over at most 50 distinct pairs of rows that pass
\* the filter every such pair has its object.
C8_OneObjectPerPair ==
    QueryRanAndExited =>
        /\ \A m \in 1..row_count : \A n \in (m + 1)..row_count :
               EmittedPair(m) # EmittedPair(n)
        /\ rc = SQLITE_DONE =>
               LET pairs == StorePairs IN
               /\ EmittedPairs \subseteq pairs
               /\ Cardinality(pairs) <= LIMIT => pairs \subseteq EmittedPairs

\* a complete run over a store in which two physical rows share a pair
C8_Witness ==
    /\ QueryRanAndExited
    /\ rc = SQLITE_DONE
    /\ Len(store.rows) <= 3
    /\ \E j \in PassingRows, k \in PassingRows : j # k /\ StorePair(j) = StorePair(k)
    /\ row_count = Cardinality(StorePairs)

\* at most 50 objects; after a complete run over more than 50 pairs,
\* exactly 50, and every pair left out has a row no newer than the last
\* emitted object
CappedAtMostRecent ==
    /\ row_count <= LIMIT
    /\ rc = SQLITE_DONE =>
           LET pairs == StorePairs
               emitted == EmittedPairs
           IN  Cardinality(pairs) > LIMIT =>
               /\ row_count = LIMIT
               /\ \A p \in pairs \ emitted :
                      \E j \in 1..Len(store.rows) :
                          /\ store.rows[j].text = p[1]
                          /\ store.rows[j].date <= result[row_count].date
                          /\ Qualifies(store.rows[j], minutes, clock)
                          /\ StorePair(j) = p

\* every emitted object carries the raw timestamp of a row of its pair
\* that passes the filter
RepresentsARow ==
    \A n \in 1..row_count :
        \E k \in 1..Len(store.rows) :
            /\ store.rows[k].date = result[n].date
            /\ store.rows[k].text = result[n].text
            /\ Qualifies(store.rows[k], minutes, clock)
            /\ StorePair(k) = EmittedPair(n)

\* C9 as stated: the emitted objects are in strictly descending order of
\* raw timestamp, at most 50, the 50 most recent when more qualify.
C9_StrictlyDescending ==
    QueryRanAndExited =>
        /\ \A n \in 1..(row_count - 1) : result[n].date > result[n + 1].date
        /\ CappedAtMostRecent

\* C9 amended: every emitted object carries the raw timestamp of one row
\* of its pair, the objects are in non-increasing order of that timestamp
\* (objects of equal timestamp in either order), at most 50, and the 50
\* most recent by that timestamp when more than 50 pairs qualify.
C9_DescendingAndCapped ==
    QueryRanAndExited =>
        /\ \A n \in 1..(row_count - 1) : result[n].date >= result[n + 1].date
        /\ CappedAtMostRecent
        /\ RepresentsARow

\* a complete run over more than 50 pairs
C9_Witness ==
    /\ QueryRanAndExited
    /\ rc = SQLITE_DONE
    /\ row_count = LIMIT
    /\ Len(store.rows) > LIMIT + 1
    /\ Cardinality(StorePairs) > LIMIT

====
